---- MODULE Spec2Model ----
(***************************************************************************)
(* The SDP dissector of packet-sdp.c: dissect_sdp walks a tvbuff a line at *)
(* a time, adds one text item to the protocol tree per line and one "Data" *)
(* item for what the loop left over.                                       *)
(*                                                                         *)
(* A byte is a string naming it: "v", "=", "0", ... and the four bytes     *)
(* below that have no printable name.  Offsets are 0-based as in the C     *)
(* code; the byte at offset k of a buffer b is b[k + 1].                   *)
(***************************************************************************)
EXTENDS Integers, Sequences, FiniteSets, TLC

NUL == "NUL"
CR  == "CR"
LF  == "LF"
DQUOTE == "DQUOTE"

(***************************************************************************)
(* Bounds and inputs.  A packet is up to MaxLines line contents separated  *)
(* by one line-ending convention; the last content has no terminator, so   *)
(* an empty last content makes a packet that ends in a terminator.  The    *)
(* contents are raw bytes: the scanner below knows nothing of this shape,  *)
(* and a double quote in a content hides the terminators that follow it.   *)
(***************************************************************************)
MaxLines == 3

\* The same for the packets that two interleaved calls parse.
MaxParLines == 2

\* The same for the packets below that try every tag.
MaxTagLines == 2

Contents ==
    { <<"v", "=">>, <<"m", "=">>, <<"t", "=">>, <<"i", "=", "0">>,
      <<"a", "=">>, <<"x", "=", "0">>, <<"s", "=", DQUOTE>>,
      <<"o", "=", CR>>, <<"m", "0">>, <<"v", "t", "=">>,
      <<>>, <<"x">> }

Eols == { <<LF>>, <<CR, LF>> }

RECURSIVE Join(_, _)
Join(ls, eol) ==
    IF ls = <<>> THEN <<>>
    ELSE IF Len(ls) = 1 THEN ls[1]
    ELSE ls[1] \o eol \o Join(Tail(ls), eol)

\* One "X=" line for each of the fifteen tags and for a byte that is none,
\* a line without separator and a line of one byte.
TagContents ==
    { <<t, "=">> : t \in {"v", "o", "s", "i", "u", "e", "p", "c", "b", "t",
                          "r", "m", "k", "a", "z", "x"} }
    \cup { <<"m", "0">>, <<"x">> }

TagBuffers(max) ==
    { Join(ls, eol) :
        ls \in UNION { [1..n -> TagContents] : n \in 0..max }, eol \in Eols }

LineSeqs(max) == UNION { [1..n -> Contents] : n \in 0..max }

Buffers(max) == { Join(ls, eol) : ls \in LineSeqs(max), eol \in Eols }

(***************************************************************************)
(* The invocations of dissect_sdp on the packet; each has its own          *)
(* automatic variables.  Spec runs one of them, SpecPar both, their steps  *)
(* interleaved in any order.                                               *)
(***************************************************************************)
Calls == {"A", "B"}

VARIABLES
    tvb,        \* the packet's bytes (read-only)
    pc,         \* per call: "idle", "loop" (line 94), "tail" (line 194), "done"
    tree,       \* per call: the tree argument is non-NULL
    offset,     \* per call: gint offset
    section,    \* per call: u_char section
    items       \* per call: the text items added to sdp_tree, in order

vars == <<tvb, pc, tree, offset, section, items>>

(***************************************************************************)
(* tvbuff accessors.  They live in epan/tvbuff.c, not in the dissector's   *)
(* file; they follow the Line Scanner contract of the specification (4.1). *)
(***************************************************************************)
tvb_length_remaining(b, off) == Len(b) - off

tvb_offset_exists(b, off) == off < Len(b)

tvb_get_ptr(b, off, n) == SubSeq(b, off + 1, off + n)

\* Offset of the first line terminator at or after pos that is not inside a
\* double-quoted string, or -1.  A terminator is LF, or CR followed by LF.
RECURSIVE FindTerminatorUnquoted(_, _, _)
FindTerminatorUnquoted(b, pos, quoted) ==
    IF pos >= Len(b) THEN -1
    ELSE LET ch == b[pos + 1] IN
         IF quoted THEN FindTerminatorUnquoted(b, pos + 1, ch # DQUOTE)
         ELSE IF ch = DQUOTE THEN FindTerminatorUnquoted(b, pos + 1, TRUE)
         ELSE IF ch = LF THEN pos
         ELSE IF ch = CR /\ pos + 1 < Len(b) /\ b[pos + 2] = LF THEN pos
         ELSE FindTerminatorUnquoted(b, pos + 1, FALSE)

\* tvb_find_line_end_unquoted(tvb, offset, -1, &next_offset): the length of
\* the line without its terminator, and the offset after the terminator.
tvb_find_line_end_unquoted(b, off) ==
    LET eol == FindTerminatorUnquoted(b, off, FALSE) IN
    IF eol = -1
    THEN [linelen |-> Len(b) - off, next_offset |-> Len(b)]
    ELSE [linelen |-> eol - off,
          next_offset |-> eol + (IF b[eol + 1] = CR THEN 2 ELSE 1)]

(***************************************************************************)
(* dissect_sdp, lines 94-198, a piece at a time.                           *)
(***************************************************************************)
\* line 104: "Line must contain at least e.g. v=".
LineTooShort(linelen) == linelen < 2

\* line 109: the second byte of the line is not '='.
MissingSeparator(line) == line[2] # "="

\* SwitchSection that enters the session section only once: a v= line met
\* after an m= line leaves the section alone.
SwitchSection_guarded(type, sec) ==
    CASE type = "v" -> IF sec = "m" THEN sec ELSE "v"
      [] type = "t" -> "t"
      [] type = "m" -> "m"
      [] OTHER      -> sec

\* SwitchSection whose default arm clears the section.
SwitchSection_defaultClears(type, sec) ==
    CASE type = "v" -> "v"
      [] type = "t" -> "t"
      [] type = "m" -> "m"
      [] type \in {"o", "s", "i", "u", "e", "p", "c", "b", "r", "k", "a", "z"} -> sec
      [] OTHER      -> NUL

\* lines 123-185, the assignments to section.
SwitchSection(type, sec) ==
    CASE type = "v" -> "v"
      [] type = "t" -> "t"
      [] type = "m" -> "m"
      [] OTHER      -> sec

\* SwitchTypename with the break of the k case missing: k falls into the a case.
SwitchTypename_fallthrough(type, sec) ==
    CASE type = "v" -> "Session Description, version"
      [] type = "o" -> "Owner/Creator, Session Id"
      [] type = "s" -> "Session Name"
      [] type = "i" -> IF sec = "v" THEN "Session Information"
                       ELSE IF sec = "m" THEN "Media Title"
                       ELSE "Misplaced"
      [] type = "u" -> "URI of Description"
      [] type = "e" -> "E-mail Address"
      [] type = "p" -> "Phone Number"
      [] type = "c" -> "Connection Information"
      [] type = "b" -> "Bandwidth Information"
      [] type = "t" -> "Time Description, active time"
      [] type = "r" -> "Repeat Time"
      [] type = "m" -> "Media Description, name and address"
      [] type \in {"k", "a"} ->
                       IF sec = "v" THEN "Session Attribute"
                       ELSE IF sec = "m" THEN "Media Attribute"
                       ELSE "Misplaced"
      [] type = "z" -> "Time Zone Adjustment"
      [] OTHER      -> "Unknown"

\* SwitchTypename with the two arms of the i case exchanged.
SwitchTypename_swapped(type, sec) ==
    CASE type = "v" -> "Session Description, version"
      [] type = "o" -> "Owner/Creator, Session Id"
      [] type = "s" -> "Session Name"
      [] type = "i" -> IF sec = "v" THEN "Media Title"
                       ELSE IF sec = "m" THEN "Session Information"
                       ELSE "Misplaced"
      [] type = "u" -> "URI of Description"
      [] type = "e" -> "E-mail Address"
      [] type = "p" -> "Phone Number"
      [] type = "c" -> "Connection Information"
      [] type = "b" -> "Bandwidth Information"
      [] type = "t" -> "Time Description, active time"
      [] type = "r" -> "Repeat Time"
      [] type = "m" -> "Media Description, name and address"
      [] type = "k" -> "Encryption Key"
      [] type = "a" -> IF sec = "v" THEN "Session Attribute"
                       ELSE IF sec = "m" THEN "Media Attribute"
                       ELSE "Misplaced"
      [] type = "z" -> "Time Zone Adjustment"
      [] OTHER      -> "Unknown"

\* lines 123-185, the assignments to typename; sec is the section after the
\* case's own assignment to it (only i and a read it, and they do not set it).
SwitchTypename(type, sec) ==
    CASE type = "v" -> "Session Description, version"
      [] type = "o" -> "Owner/Creator, Session Id"
      [] type = "s" -> "Session Name"
      [] type = "i" -> IF sec = "v" THEN "Session Information"
                       ELSE IF sec = "m" THEN "Media Title"
                       ELSE "Misplaced"
      [] type = "u" -> "URI of Description"
      [] type = "e" -> "E-mail Address"
      [] type = "p" -> "Phone Number"
      [] type = "c" -> "Connection Information"
      [] type = "b" -> "Bandwidth Information"
      [] type = "t" -> "Time Description, active time"
      [] type = "r" -> "Repeat Time"
      [] type = "m" -> "Media Description, name and address"
      [] type = "k" -> "Encryption Key"
      [] type = "a" -> IF sec = "v" THEN "Session Attribute"
                       ELSE IF sec = "m" THEN "Media Attribute"
                       ELSE "Misplaced"
      [] type = "z" -> "Time Zone Adjustment"
      [] OTHER      -> "Unknown"

\* lines 110-113: "Invalid line: %s" over the line and its terminator.
InvalidItem(b, off, next_offset) ==
    [kind   |-> "invalid",
     start  |-> off,
     length |-> next_offset - off,
     text   |-> tvb_get_ptr(b, off, next_offset - off)]

\* FieldItem that formats the value up to the next offset, not valuelen bytes.
FieldItem_wholeValue(off, next_offset, typename, type, value, valuelen) ==
    [kind     |-> "field",
     start    |-> off,
     length   |-> next_offset - off,
     typename |-> typename,
     type     |-> type,
     value    |-> SubSeq(value, 1, next_offset - off - 2)]

\* FieldItem with the item's length taken from the line without its terminator.
FieldItem_noterminator(off, next_offset, typename, type, value, valuelen) ==
    [kind     |-> "field",
     start    |-> off,
     length   |-> valuelen + 2,
     typename |-> typename,
     type     |-> type,
     value    |-> SubSeq(value, 1, valuelen)]

\* lines 187-190: "%s (%c): %s" with typename, type and the value.
FieldItem(off, next_offset, typename, type, value, valuelen) ==
    [kind     |-> "field",
     start    |-> off,
     length   |-> next_offset - off,
     typename |-> typename,
     type     |-> type,
     value    |-> SubSeq(value, 1, valuelen)]

\* lines 196-197: "Data (%d bytes)".
DataItem(off, datalen) ==
    [kind    |-> "data",
     start   |-> off,
     length  |-> datalen,
     datalen |-> datalen]

\* HasData that lets an empty remainder through.
HasData_orEmpty(datalen) == datalen >= 0

\* HasData that drops a remainder of a single byte.
HasData_moreThanOne(datalen) == datalen > 1

\* line 195
HasData(datalen) == datalen > 0

\* The section at entry when line 93 is missing and section is static: what
\* another call left in it.
InitialSection_static(c) == section[CHOOSE d \in Calls : d # c]

\* line 93
InitialSection(c) == NUL

(***************************************************************************)
(* The whole parse of a buffer as a function: the items that lines 93-198  *)
(* add for buffer b, from offset off on with section sec, after its.       *)
(***************************************************************************)
\* lines 194-198
DissectTail(b, off, its) ==
    LET datalen == tvb_length_remaining(b, off) IN
    IF HasData(datalen) THEN Append(its, DataItem(off, datalen)) ELSE its

\* lines 94-192
RECURSIVE DissectLoop(_, _, _, _)
DissectLoop(b, off, sec, its) ==
    IF ~tvb_offset_exists(b, off) THEN DissectTail(b, off, its)
    ELSE LET le   == tvb_find_line_end_unquoted(b, off)
             line == tvb_get_ptr(b, off, le.next_offset - off)
         IN  IF LineTooShort(le.linelen) THEN DissectTail(b, off, its)
             ELSE IF MissingSeparator(line)
             THEN DissectLoop(b, le.next_offset, sec,
                              Append(its, InvalidItem(b, off, le.next_offset)))
             ELSE LET type     == line[1]
                      value    == SubSeq(line, 3, Len(line))
                      valuelen == le.linelen - 2
                      newsec   == SwitchSection(type, sec)
                      typename == SwitchTypename(type, newsec)
                  IN  DissectLoop(b, le.next_offset, newsec,
                         Append(its, FieldItem(off, le.next_offset, typename,
                                               type, value, valuelen)))

\* lines 93-198 with a tree: section = 0, offset = 0, no item yet.
DissectItems(b) == DissectLoop(b, 0, NUL, <<>>)

(***************************************************************************)
(* Actions.                                                                *)
(***************************************************************************)
InitOn(buffers) ==
    /\ tvb \in buffers
    /\ pc = [c \in Calls |-> "idle"]
    /\ tree = [c \in Calls |-> FALSE]
    /\ offset = [c \in Calls |-> 0]
    /\ section = [c \in Calls |-> NUL]
    /\ items = [c \in Calls |-> <<>>]

Init == InitOn(Buffers(MaxLines))

InitPar == InitOn(Buffers(MaxParLines))

InitTags == InitOn(TagBuffers(MaxTagLines))

\* Lines 46-93: entry.  Without a tree the function returns at line 84.
Enter(c) ==
    /\ pc[c] = "idle"
    /\ \E t \in BOOLEAN :
          /\ tree' = [tree EXCEPT ![c] = t]
          /\ offset' = [offset EXCEPT ![c] = 0]
          /\ IF t
             THEN /\ section' = [section EXCEPT ![c] = InitialSection(c)]
                  /\ pc' = [pc EXCEPT ![c] = "loop"]
             ELSE /\ section' = section
                  /\ pc' = [pc EXCEPT ![c] = "done"]
    /\ UNCHANGED <<tvb, items>>

\* Line 94: the loop condition fails.
LoopEnd(c) ==
    /\ pc[c] = "loop"
    /\ ~tvb_offset_exists(tvb, offset[c])
    /\ pc' = [pc EXCEPT ![c] = "tail"]
    /\ UNCHANGED <<tvb, tree, offset, section, items>>

\* ShortLine that reports the short line as an invalid line and goes on.
ShortLine_asInvalid(c) ==
    /\ pc[c] = "loop"
    /\ tvb_offset_exists(tvb, offset[c])
    /\ LET le == tvb_find_line_end_unquoted(tvb, offset[c]) IN
       /\ LineTooShort(le.linelen)
       /\ items' = [items EXCEPT ![c] =
             Append(@, InvalidItem(tvb, offset[c], le.next_offset))]
       /\ offset' = [offset EXCEPT ![c] = le.next_offset]
    /\ UNCHANGED <<tvb, pc, tree, section>>

\* ShortLine that skips the short line (continue instead of break).
ShortLine_continue(c) ==
    /\ pc[c] = "loop"
    /\ tvb_offset_exists(tvb, offset[c])
    /\ LET le == tvb_find_line_end_unquoted(tvb, offset[c]) IN
       /\ LineTooShort(le.linelen)
       /\ offset' = [offset EXCEPT ![c] = le.next_offset]
    /\ UNCHANGED <<tvb, pc, tree, section, items>>

\* Lines 94-105: the line is too short, break.
ShortLine(c) ==
    /\ pc[c] = "loop"
    /\ tvb_offset_exists(tvb, offset[c])
    /\ LET le == tvb_find_line_end_unquoted(tvb, offset[c]) IN
       LineTooShort(le.linelen)
    /\ pc' = [pc EXCEPT ![c] = "tail"]
    /\ UNCHANGED <<tvb, tree, offset, section, items>>

\* InvalidLine without line 114: the offset is not advanced before continue.
InvalidLine_stuck(c) ==
    /\ pc[c] = "loop"
    /\ tvb_offset_exists(tvb, offset[c])
    /\ LET le   == tvb_find_line_end_unquoted(tvb, offset[c])
           line == tvb_get_ptr(tvb, offset[c], le.next_offset - offset[c])
       IN  /\ ~LineTooShort(le.linelen)
           /\ MissingSeparator(line)
           /\ items' = [items EXCEPT ![c] =
                 Append(@, InvalidItem(tvb, offset[c], le.next_offset))]
    /\ UNCHANGED <<tvb, pc, tree, section, offset>>

\* InvalidLine that takes the section from the line's first byte before it
\* looks at the second.
InvalidLine_setsSection(c) ==
    /\ pc[c] = "loop"
    /\ tvb_offset_exists(tvb, offset[c])
    /\ LET le   == tvb_find_line_end_unquoted(tvb, offset[c])
           line == tvb_get_ptr(tvb, offset[c], le.next_offset - offset[c])
       IN  /\ ~LineTooShort(le.linelen)
           /\ MissingSeparator(line)
           /\ items' = [items EXCEPT ![c] =
                 Append(@, InvalidItem(tvb, offset[c], le.next_offset))]
           /\ offset' = [offset EXCEPT ![c] = le.next_offset]
           /\ section' = [section EXCEPT ![c] = SwitchSection(line[1], @)]
    /\ UNCHANGED <<tvb, pc, tree>>

\* Lines 94-116: no '=' after the type byte, "Invalid line", continue.
InvalidLine(c) ==
    /\ pc[c] = "loop"
    /\ tvb_offset_exists(tvb, offset[c])
    /\ LET le   == tvb_find_line_end_unquoted(tvb, offset[c])
           line == tvb_get_ptr(tvb, offset[c], le.next_offset - offset[c])
       IN  /\ ~LineTooShort(le.linelen)
           /\ MissingSeparator(line)
           /\ items' = [items EXCEPT ![c] =
                 Append(@, InvalidItem(tvb, offset[c], le.next_offset))]
           /\ offset' = [offset EXCEPT ![c] = le.next_offset]
    /\ UNCHANGED <<tvb, pc, tree, section>>

\* Lines 94-109 and 117-191: a "X=value" line.
FieldLine(c) ==
    /\ pc[c] = "loop"
    /\ tvb_offset_exists(tvb, offset[c])
    /\ LET le   == tvb_find_line_end_unquoted(tvb, offset[c])
           line == tvb_get_ptr(tvb, offset[c], le.next_offset - offset[c])
       IN  /\ ~LineTooShort(le.linelen)
           /\ ~MissingSeparator(line)
           /\ LET type     == line[1]
                  value    == SubSeq(line, 3, Len(line))
                  valuelen == le.linelen - 2
                  sec      == SwitchSection(type, section[c])
                  typename == SwitchTypename(type, sec)
              IN  /\ section' = [section EXCEPT ![c] = sec]
                  /\ items' = [items EXCEPT ![c] =
                        Append(@, FieldItem(offset[c], le.next_offset,
                                            typename, type, value, valuelen))]
                  /\ offset' = [offset EXCEPT ![c] = le.next_offset]
    /\ UNCHANGED <<tvb, pc, tree>>

\* Lines 194-199: the bytes the loop left, then return.
Tail_(c) ==
    /\ pc[c] = "tail"
    /\ LET datalen == tvb_length_remaining(tvb, offset[c]) IN
       items' = [items EXCEPT ![c] =
                    IF HasData(datalen)
                    THEN Append(@, DataItem(offset[c], datalen))
                    ELSE @]
    /\ pc' = [pc EXCEPT ![c] = "done"]
    /\ UNCHANGED <<tvb, tree, offset, section>>

\* The steps of a call that has been entered.
Run(c) ==
    \/ LoopEnd(c)
    \/ ShortLine(c)
    \/ InvalidLine(c)
    \/ FieldLine(c)
    \/ Tail_(c)

Next ==
    \/ Enter("A")
    \/ LoopEnd("A")
    \/ ShortLine("A")
    \/ InvalidLine("A")
    \/ FieldLine("A")
    \/ Tail_("A")

Spec == Init /\ [][Next]_vars

NextPar ==
    \E c \in Calls :
        \/ Enter(c)
        \/ LoopEnd(c)
        \/ ShortLine(c)
        \/ InvalidLine(c)
        \/ FieldLine(c)
        \/ Tail_(c)

SpecPar == InitPar /\ [][NextPar]_vars

\* One call over the packets that try every tag.
SpecTags == InitTags /\ [][Next]_vars

(***************************************************************************)
(* Vocabulary of the properties.                                           *)
(***************************************************************************)
\* The parse of call c has finished.  A call without a tree returns at line
\* 84 and parses nothing.
ParseFinished(c) == tree[c] /\ pc[c] = "done"

\* Call c is at the top of the loop with a line to look at.
AtLine(c) == pc[c] = "loop" /\ offset[c] < Len(tvb)

LineHere(c) == tvb_find_line_end_unquoted(tvb, offset[c])

\* The line call c looks at is syntactically valid: two bytes or more, '='
\* second.
ValidHere(c) ==
    /\ AtLine(c)
    /\ LineHere(c).linelen >= 2
    /\ tvb[offset[c] + 2] = "="

\* ... has two bytes or more and no '=' second.
InvalidHere(c) ==
    /\ AtLine(c)
    /\ LineHere(c).linelen >= 2
    /\ tvb[offset[c] + 2] # "="

\* ... has fewer than two bytes.
ShortHere(c) == AtLine(c) /\ LineHere(c).linelen < 2

\* Call c takes a step of its loop.
Iterates(c) == pc[c] = "loop" /\ <<pc[c], offset[c], items[c]>>' # <<pc[c], offset[c], items[c]>>

\* The variables of call c.
Locals(c) == <<pc[c], tree[c], offset[c], section[c], items[c]>>

LastItem(c) == items[c][Len(items[c])]

Kinds(its) == { its[k].kind : k \in 1..Len(its) }

\* The items its, in order, tile [from, to): each begins where the one before
\* ended.
Tiles(its, from, to) ==
    /\ its = <<>> => from = to
    /\ its # <<>> =>
          /\ its[1].start = from
          /\ its[Len(its)].start + its[Len(its)].length = to
          /\ \A k \in 1..Len(its) : its[k].start >= from /\ its[k].length >= 0
          /\ \A k \in 2..Len(its) :
                its[k].start = its[k - 1].start + its[k - 1].length

\* The names the specification gives i and a in a section.
ContextualName(type, sec) ==
    CASE sec = "v" -> IF type = "i" THEN "Session Information"
                      ELSE "Session Attribute"
      [] sec = "m" -> IF type = "i" THEN "Media Title"
                      ELSE "Media Attribute"
      [] OTHER     -> "Misplaced"

\* The type of the last field item among its[1..k-1] whose type is in marks,
\* or NUL.
RECURSIVE LastMark(_, _, _)
LastMark(its, k, marks) ==
    IF k <= 1 THEN NUL
    ELSE IF its[k - 1].kind = "field" /\ its[k - 1].type \in marks
         THEN its[k - 1].type
         ELSE LastMark(its, k - 1, marks)

(***************************************************************************)
(* C1: coverage.  When a parse has finished, its items, in the order they  *)
(* were added, tile the buffer: the first starts at 0, each starts where   *)
(* the one before ended, the last ends at the buffer's length.             *)
(***************************************************************************)
\* C1: the items of a finished parse tile [0, length of the buffer).
C1_Coverage ==
    \A c \in Calls : ParseFinished(c) => Tiles(items[c], 0, Len(tvb))

\* A finished parse that added an invalid line, a field and trailing data.
C1_Witness ==
    \E c \in Calls :
        /\ ParseFinished(c)
        /\ Kinds(items[c]) = {"invalid", "field", "data"}

(***************************************************************************)
(* C2: contextual naming.  A valid i= or a= line is named after the        *)
(* section in force when it is met: session names under 'v', media names   *)
(* under 'm', "Misplaced" under anything else; and an i or a field with no *)
(* v or m field before it is "Misplaced".                                  *)
(***************************************************************************)
C2_StepNamed(c) ==
    (ValidHere(c) /\ Iterates(c) /\ tvb[offset[c] + 1] \in {"i", "a"}) =>
        /\ Len(items'[c]) = Len(items[c]) + 1
        /\ LET it == items'[c][Len(items'[c])] IN
           /\ it.kind = "field"
           /\ it.type = tvb[offset[c] + 1]
           /\ it.typename = ContextualName(it.type, section[c])

C2_NoSectionYet(c) ==
    \A k \in 1..Len(items[c]) :
        LET it == items[c][k] IN
        (it.kind = "field" /\ it.type \in {"i", "a"}
           /\ LastMark(items[c], k, {"v", "m"}) = NUL)
        => it.typename = "Misplaced"

\* C2: i and a are named from the section in force, "Misplaced" outside v and m.
C2_ContextualNaming ==
    [][\A c \in Calls : C2_StepNamed(c) /\ C2_NoSectionYet(c)']_vars

\* An i named in the session section after an a named with no section.
C2_Witness ==
    \E c \in Calls : \E j, k \in 1..Len(items[c]) :
        /\ j < k
        /\ items[c][j].kind = "field" /\ items[c][j].type = "a"
        /\ items[c][j].typename = "Misplaced"
        /\ items[c][k].kind = "field" /\ items[c][k].type = "i"
        /\ items[c][k].typename = "Session Information"

(***************************************************************************)
(* C3: only v and m change the section, so every i or a field is named     *)
(* after the last v or m field before it, whatever other valid lines (t    *)
(* among them) lie in between.  The code sets section to 't' at line 158:  *)
(* after v=, t=, an a= line is "Misplaced".                                *)
(***************************************************************************)
\* C3 (as claimed): i and a are named from the last v or m field alone.
C3_OnlyVandM ==
    \A c \in Calls : \A k \in 1..Len(items[c]) :
        LET it == items[c][k] IN
        (it.kind = "field" /\ it.type \in {"i", "a"})
        => it.typename = ContextualName(it.type, LastMark(items[c], k, {"v", "m"}))

(***************************************************************************)
(* C4: a line of fewer than two bytes.  As claimed (an invalid-line item   *)
(* is added for it) this fails: the loop breaks at line 105 before any     *)
(* item is added.  What holds: the step that meets such a line adds no     *)
(* item, leaves section and offset alone and leaves the loop, and no       *)
(* invalid-line item ever stands at a line of fewer than two bytes.        *)
(***************************************************************************)
\* C4 (as claimed): a parse that stopped at a short line added an invalid-line
\* item for it.
C4_Original ==
    \A c \in Calls :
        (ParseFinished(c) /\ offset[c] < Len(tvb)
           /\ tvb_find_line_end_unquoted(tvb, offset[c]).linelen < 2)
        => \E k \in 1..Len(items[c]) :
              items[c][k].kind = "invalid" /\ items[c][k].start = offset[c]

C4_ShortStep(c) ==
    (ShortHere(c) /\ Iterates(c)) =>
        /\ items'[c] = items[c]
        /\ section'[c] = section[c]
        /\ offset'[c] = offset[c]
        /\ pc'[c] = "tail"

C4_NoInvalidForShort(c) ==
    \A k \in 1..Len(items[c]) :
        items[c][k].kind = "invalid" =>
            tvb_find_line_end_unquoted(tvb, items[c][k].start).linelen >= 2

\* C4 (amended): a short line adds no item, changes no section and ends the
\* loop; no invalid-line item stands at a short line.
C4_ShortLineNoItem ==
    [][\A c \in Calls : C4_ShortStep(c) /\ C4_NoInvalidForShort(c)']_vars

\* A parse that stopped at a short line after a v= line, section still 'v'.
C4_Witness ==
    \E c \in Calls :
        /\ ParseFinished(c)
        /\ offset[c] < Len(tvb)
        /\ tvb_find_line_end_unquoted(tvb, offset[c]).linelen < 2
        /\ section[c] = "v"
        /\ "invalid" \notin Kinds(items[c])

(***************************************************************************)
(* C5: early exit.  Once call c stands at a line of fewer than two bytes   *)
(* at offset k, its offset never moves again and the only item it still    *)
(* adds is one Data item [k, length) reporting length - k bytes; at the    *)
(* end no field or invalid-line item reaches past k and that Data item is  *)
(* the last and only one.                                                  *)
(***************************************************************************)
ShortMet(c) ==
    /\ tree[c]
    /\ pc[c] \in {"loop", "tail", "done"}
    /\ offset[c] < Len(tvb)
    /\ LineHere(c).linelen < 2

C5_After(c) ==
    ShortMet(c) =>
        /\ offset'[c] = offset[c]
        /\ \/ /\ items'[c] = items[c]
              /\ pc'[c] = pc[c] \/ (pc[c] = "loop" /\ pc'[c] = "tail")
           \/ /\ pc[c] = "tail" /\ pc'[c] = "done"
              /\ items'[c] = Append(items[c],
                    [kind |-> "data", start |-> offset[c],
                     length |-> Len(tvb) - offset[c],
                     datalen |-> Len(tvb) - offset[c]])

C5_Final(c) ==
    (ShortMet(c) /\ pc[c] = "done") =>
        /\ items[c] # <<>>
        /\ LastItem(c).kind = "data"
        /\ \A j \in 1..Len(items[c]) :
              LET it == items[c][j] IN
              /\ it.kind \in {"field", "invalid"} =>
                    it.start + it.length <= offset[c]
              /\ it.kind = "data" =>
                    /\ j = Len(items[c])
                    /\ it.start = offset[c]
                    /\ it.length = Len(tvb) - offset[c]
                    /\ it.datalen = Len(tvb) - offset[c]

\* C5: from a short line at k on, the offset stays at k and only the Data item
\* [k, length) is added.
C5_EarlyExit ==
    [][\A c \in Calls : C5_After(c) /\ C5_Final(c)']_vars

\* A finished parse that stopped at a short line with a valid line after it.
C5_Witness ==
    \E c \in Calls :
        /\ ShortMet(c) /\ pc[c] = "done"
        /\ LET n == LineHere(c).next_offset IN
           /\ n < Len(tvb)
           /\ tvb_find_line_end_unquoted(tvb, n).linelen >= 2
           /\ tvb[n + 2] = "="

(***************************************************************************)
(* C6: missing separator.  A line of two bytes or more whose second byte   *)
(* is not '=' adds exactly one invalid-line item over [offset,             *)
(* next_offset), leaves section alone whatever its first byte, and the     *)
(* loop goes on at next_offset; so every i or a field is named from the    *)
(* last v, t or m FIELD before it, invalid lines not counting.             *)
(***************************************************************************)
C6_Step(c) ==
    (InvalidHere(c) /\ Iterates(c)) =>
        LET le == LineHere(c)
            n  == Len(items[c])
        IN  /\ Len(items'[c]) = n + 1
            /\ SubSeq(items'[c], 1, n) = items[c]
            /\ items'[c][n + 1].kind = "invalid"
            /\ items'[c][n + 1].start = offset[c]
            /\ items'[c][n + 1].length = le.next_offset - offset[c]
            /\ section'[c] = section[c]
            /\ offset'[c] = le.next_offset
            /\ pc'[c] = "loop"

C6_SectionHeld(c) ==
    \A k \in 1..Len(items[c]) :
        LET it == items[c][k] IN
        (it.kind = "field" /\ it.type \in {"i", "a"})
        => it.typename =
              ContextualName(it.type, LastMark(items[c], k, {"v", "t", "m"}))

\* C6: a line without '=' adds one invalid-line item over [offset, next_offset),
\* keeps the section and the loop goes on.
C6_MissingSeparator ==
    [][\A c \in Calls : C6_Step(c) /\ C6_SectionHeld(c)']_vars

\* v=, then an invalid line that begins with m, then i= named in the session.
C6_Witness ==
    \E c \in Calls : \E k \in 2..(Len(items[c]) - 1) :
        /\ items[c][k - 1].kind = "field" /\ items[c][k - 1].type = "v"
        /\ items[c][k].kind = "invalid" /\ tvb[items[c][k].start + 1] = "m"
        /\ items[c][k + 1].kind = "field" /\ items[c][k + 1].type = "i"
        /\ items[c][k + 1].typename = "Session Information"

(***************************************************************************)
(* C7: no terminator at the end.  As claimed (for every buffer whose last  *)
(* line is unterminated and two bytes or more) this fails when an earlier  *)
(* line of fewer than two bytes stopped the loop: the last line then lies  *)
(* in the Data item.  What holds: when no line of the buffer has fewer     *)
(* than two bytes, the unterminated last line is the last item, a field    *)
(* or an invalid line by its second byte, ending at the buffer's length,   *)
(* and there is no Data item.                                              *)
(***************************************************************************)
\* The start of the last line of b, scanning line by line from off.
RECURSIVE LastLineStart(_, _)
LastLineStart(b, off) ==
    LET le == tvb_find_line_end_unquoted(b, off) IN
    IF le.next_offset >= Len(b) THEN off ELSE LastLineStart(b, le.next_offset)

\* The last line of b has two bytes or more and no terminator.
UnterminatedLast(b) ==
    /\ Len(b) > 0
    /\ LET L == LastLineStart(b, 0) IN
       /\ FindTerminatorUnquoted(b, L, FALSE) = -1
       /\ Len(b) - L >= 2

\* Every line of b from off on has two bytes or more.
RECURSIVE AllLinesLong(_, _)
AllLinesLong(b, off) ==
    \/ off >= Len(b)
    \/ LET le == tvb_find_line_end_unquoted(b, off) IN
       le.linelen >= 2 /\ AllLinesLong(b, le.next_offset)

C7_LastClassified(c) ==
    LET L == LastLineStart(tvb, 0) IN
    /\ items[c] # <<>>
    /\ LastItem(c).start = L
    /\ LastItem(c).start + LastItem(c).length = Len(tvb)
    /\ LastItem(c).kind = (IF tvb[L + 2] = "=" THEN "field" ELSE "invalid")
    /\ LastItem(c).kind = "field" => LastItem(c).type = tvb[L + 1]
    /\ "data" \notin Kinds(items[c])

\* C7 (as claimed): an unterminated last line of two bytes or more is always
\* the last item and no Data item follows.
C7_Original ==
    \A c \in Calls :
        (ParseFinished(c) /\ UnterminatedLast(tvb)) => C7_LastClassified(c)

\* C7 (amended): the same, when no line of the buffer has fewer than two bytes.
C7_UnterminatedLast ==
    \A c \in Calls :
        (ParseFinished(c) /\ UnterminatedLast(tvb) /\ AllLinesLong(tvb, 0))
        => C7_LastClassified(c)

\* A finished parse of two lines or more whose last line has no terminator.
C7_Witness ==
    \E c \in Calls :
        /\ ParseFinished(c)
        /\ UnterminatedLast(tvb)
        /\ AllLinesLong(tvb, 0)
        /\ LastLineStart(tvb, 0) > 0

(***************************************************************************)
(* C8: termination.  Every iteration that stays in the loop moves the      *)
(* offset forward by two bytes or more and the offset never passes the     *)
(* buffer's length; so every step of a call lowers a variant that is never *)
(* negative, and a call that has not returned always has a step to take:   *)
(* the call returns after finitely many steps.                             *)
(***************************************************************************)
C8_Advance(c) ==
    (pc[c] = "loop" /\ pc'[c] = "loop" /\ Iterates(c)) =>
        offset'[c] >= offset[c] + 2

C8_InBuffer(c) == 0 <= offset[c] /\ offset[c] <= Len(tvb)

\* Bytes left to parse, then the tail, then the return.
C8_Variant(c) ==
    CASE pc[c] = "idle" -> Len(tvb) + 3
      [] pc[c] = "loop" -> Len(tvb) - offset[c] + 2
      [] pc[c] = "tail" -> 1
      [] pc[c] = "done" -> 0

C8_NotStuck(c) == pc[c] \in {"loop", "tail"} => ENABLED Run(c)

\* A step of call c lowers its variant and leaves it with a next step unless
\* it has returned.
C8_Decreases(c) ==
    Locals(c)' # Locals(c) =>
        /\ C8_Variant(c)' < C8_Variant(c)
        /\ C8_Variant(c)' >= 0
        /\ C8_NotStuck(c)'

\* C8: iterations advance the offset by two or more within the buffer, every
\* step lowers the variant, and a call that has not returned can step.
C8_Termination ==
    [][\A c \in Calls :
          /\ C8_Advance(c)
          /\ C8_InBuffer(c)'
          /\ C8_Decreases(c)]_vars

\* A parse that returned after three iterations, one of them an invalid line.
C8_Witness ==
    \E c \in Calls :
        /\ ParseFinished(c)
        /\ Len(items[c]) >= 3
        /\ "invalid" \in Kinds(items[c])
        /\ offset[c] = Len(tvb)

(***************************************************************************)
(* C9: unknown tag.  A valid line whose first byte is none of the fifteen  *)
(* tags adds a field item named "Unknown" that carries the byte and the    *)
(* bytes between the '=' and the end of the line, leaves section alone,    *)
(* and the loop goes on after the line.                                    *)
(***************************************************************************)
KnownTags ==
    {"v", "o", "s", "i", "u", "e", "p", "c", "b", "t", "r", "m", "k", "a", "z"}

C9_Step(c) ==
    (ValidHere(c) /\ Iterates(c) /\ tvb[offset[c] + 1] \notin KnownTags) =>
        LET le == LineHere(c)
            n  == Len(items[c])
        IN  /\ Len(items'[c]) = n + 1
            /\ SubSeq(items'[c], 1, n) = items[c]
            /\ items'[c][n + 1].kind = "field"
            /\ items'[c][n + 1].typename = "Unknown"
            /\ items'[c][n + 1].type = tvb[offset[c] + 1]
            /\ items'[c][n + 1].value =
                  SubSeq(tvb, offset[c] + 3, offset[c] + le.linelen)
            /\ items'[c][n + 1].start = offset[c]
            /\ items'[c][n + 1].length = le.next_offset - offset[c]
            /\ section'[c] = section[c]
            /\ offset'[c] = le.next_offset
            /\ pc'[c] = "loop"

\* C9: a valid line with an unrecognised tag adds an "Unknown" field with its
\* byte and value, keeps the section and the loop goes on.
C9_UnknownTag == [][\A c \in Calls : C9_Step(c)]_vars

\* m=, then x=0 named "Unknown", then a= still named in the media section.
C9_Witness ==
    \E c \in Calls : \E k \in 2..(Len(items[c]) - 1) :
        /\ items[c][k - 1].kind = "field" /\ items[c][k - 1].type = "m"
        /\ items[c][k].kind = "field" /\ items[c][k].typename = "Unknown"
        /\ items[c][k].type = "x" /\ items[c][k].value = <<"0">>
        /\ items[c][k + 1].kind = "field"
        /\ items[c][k + 1].typename = "Media Attribute"

(***************************************************************************)
(* C10: determinism and call independence.  Two parses of the same buffer, *)
(* however their steps interleave, add the same items; a call's section is *)
(* 0 when it reaches the loop; and a step of one call changes no variable  *)
(* of another.                                                             *)
(***************************************************************************)
C10_SameItems ==
    \A c, d \in Calls :
        (ParseFinished(c) /\ ParseFinished(d)) => items[c] = items[d]

C10_FreshSection(c) ==
    (pc[c] = "idle" /\ pc'[c] = "loop") => section'[c] = NUL

C10_Isolated(c) ==
    \A d \in Calls \ {c} : Locals(d)' # Locals(d) => Locals(c)' = Locals(c)

\* C10: two parses of one buffer add the same items, each starts with section
\* 0, and no step of one call changes a variable of the other.
C10_Determinism ==
    [][/\ C10_SameItems'
       /\ \A c \in Calls : C10_FreshSection(c) /\ C10_Isolated(c)]_vars

\* One call has finished in the media section while the other, entered
\* later, has parsed its first line and is in the session section.
C10_Interleaved ==
    \E c, d \in Calls :
        /\ ParseFinished(c) /\ section[c] = "m" /\ Len(items[c]) >= 2
        /\ tree[d] /\ pc[d] = "loop" /\ section[d] = "v" /\ Len(items[d]) = 1

(***************************************************************************)
(* C11: fixed names.  A valid line whose tag is one of the thirteen tags   *)
(* other than i and a is named by the table below, whatever the section    *)
(* is when the line is met.                                                *)
(***************************************************************************)
FixedTags == {"v", "o", "s", "u", "e", "p", "c", "b", "t", "r", "m", "k", "z"}

FixedName(type) ==
    CASE type = "v" -> "Session Description, version"
      [] type = "o" -> "Owner/Creator, Session Id"
      [] type = "s" -> "Session Name"
      [] type = "u" -> "URI of Description"
      [] type = "e" -> "E-mail Address"
      [] type = "p" -> "Phone Number"
      [] type = "c" -> "Connection Information"
      [] type = "b" -> "Bandwidth Information"
      [] type = "t" -> "Time Description, active time"
      [] type = "r" -> "Repeat Time"
      [] type = "m" -> "Media Description, name and address"
      [] type = "k" -> "Encryption Key"
      [] type = "z" -> "Time Zone Adjustment"

C11_Step(c) ==
    (ValidHere(c) /\ Iterates(c) /\ tvb[offset[c] + 1] \in FixedTags) =>
        /\ Len(items'[c]) = Len(items[c]) + 1
        /\ LET it == items'[c][Len(items'[c])] IN
           /\ it.kind = "field"
           /\ it.type = tvb[offset[c] + 1]
           /\ it.typename = FixedName(it.type)

\* C11: a valid line with one of the thirteen fixed tags is named by the table,
\* in every section.
C11_FixedNames == [][\A c \in Calls : C11_Step(c)]_vars

\* k= named "Encryption Key" while the section is 'm'.
C11_Witness ==
    \E c \in Calls :
        /\ Len(items[c]) = 2
        /\ section[c] = "m"
        /\ items[c][1].kind = "field" /\ items[c][1].type = "m"
        /\ items[c][2].kind = "field" /\ items[c][2].type = "k"
        /\ items[c][2].typename = "Encryption Key"

(***************************************************************************)
(* C12: unguarded re-entry.  Every valid v= line sets the section to 'v'   *)
(* and every valid m= line sets it to 'm', whatever it was, and the line's *)
(* own name does not depend on it; so the i and a fields that follow a v   *)
(* field, up to the next line that sets the section, are named in the      *)
(* session section, and those that follow an m field in the media section, *)
(* wherever in the packet they stand.                                      *)
(***************************************************************************)
C12_Step(c) ==
    (ValidHere(c) /\ Iterates(c) /\ tvb[offset[c] + 1] \in {"v", "m"}) =>
        /\ section'[c] = tvb[offset[c] + 1]
        /\ Len(items'[c]) = Len(items[c]) + 1
        /\ LET it == items'[c][Len(items'[c])] IN
           /\ it.kind = "field"
           /\ it.type = tvb[offset[c] + 1]
           /\ it.typename =
                 (IF it.type = "v" THEN "Session Description, version"
                  ELSE "Media Description, name and address")

C12_NextNamed(c) ==
    \A k \in 2..Len(items[c]) :
        LET mark == LastMark(items[c], k, {"v", "t", "m"})
            it   == items[c][k]
        IN  (it.kind = "field" /\ it.type \in {"i", "a"} /\ mark \in {"v", "m"})
            => it.typename =
                  (IF mark = "v"
                   THEN (IF it.type = "i" THEN "Session Information"
                         ELSE "Session Attribute")
                   ELSE (IF it.type = "i" THEN "Media Title"
                         ELSE "Media Attribute"))

\* C12: v= and m= set the section whatever it was; the i= and a= lines after
\* them are named from the section they set.
C12_Reentry ==
    [][\A c \in Calls : C12_Step(c) /\ C12_NextNamed(c)']_vars

\* m=, then v= again, then i= named in the session section.
C12_Witness ==
    \E c \in Calls :
        /\ Len(items[c]) = 3
        /\ items[c][1].kind = "field" /\ items[c][1].type = "m"
        /\ items[c][2].kind = "field" /\ items[c][2].type = "v"
        /\ items[c][2].typename = "Session Description, version"
        /\ items[c][3].kind = "field" /\ items[c][3].type = "i"
        /\ items[c][3].typename = "Session Information"

(***************************************************************************)
(* C13: value extraction.  The value of a field item is the line's bytes   *)
(* from the third to the end of the line's content, linelen - 2 of them    *)
(* (none for a line that is just "X="); the item spans the line and its    *)
(* terminator, [start, next_offset), so the bytes of the span after the    *)
(* value are exactly the terminator: nothing, LF, or CR LF.                *)
(***************************************************************************)
C13_Extracted(it) ==
    LET le == tvb_find_line_end_unquoted(tvb, it.start) IN
    /\ it.type = tvb[it.start + 1]
    /\ tvb[it.start + 2] = "="
    /\ it.value = SubSeq(tvb, it.start + 3, it.start + le.linelen)
    /\ Len(it.value) = le.linelen - 2
    /\ it.length = le.next_offset - it.start
    /\ SubSeq(tvb, it.start + 2 + Len(it.value) + 1, it.start + it.length)
          \in {<<>>, <<LF>>, <<CR, LF>>}

\* C13: a field's value is the line content after "X=", without the terminator
\* that its span includes.
C13_ValueExtraction ==
    \A c \in Calls : \A k \in 1..Len(items[c]) :
        items[c][k].kind = "field" => C13_Extracted(items[c][k])

\* An "X=" line with an empty value and a line with a one-byte value, both
\* ended by CR LF.
C13_Witness ==
    \E c \in Calls : \E j, k \in 1..Len(items[c]) :
        /\ items[c][j].kind = "field" /\ items[c][j].value = <<>>
        /\ items[c][j].length = 4
        /\ items[c][k].kind = "field" /\ items[c][k].value = <<"0">>
        /\ items[c][k].length = 5

(***************************************************************************)
(* C14: terminator conventions.  Take the lines of the buffer as the       *)
(* scanner cuts them.  When its terminators all follow one convention (LF  *)
(* or CR LF) and the buffer re-joined with either convention is cut into   *)
(* the same line contents, the parse of the re-joined buffer adds items of *)
(* the same kinds, tags, names and values as the parse of the buffer.      *)
(***************************************************************************)
\* The lines of b from off on: content and terminator bytes of each.
RECURSIVE ScanLines(_, _)
ScanLines(b, off) ==
    IF off >= Len(b) THEN <<>>
    ELSE LET le == tvb_find_line_end_unquoted(b, off) IN
         <<[content |-> SubSeq(b, off + 1, off + le.linelen),
            eol     |-> SubSeq(b, off + le.linelen + 1, le.next_offset)]>>
         \o ScanLines(b, le.next_offset)

LineContents(ls) == [k \in 1..Len(ls) |-> ls[k].content]

\* Every terminator of ls is eol (the last line may have none).
UsesOnly(ls, eol) == \A k \in 1..Len(ls) : ls[k].eol \in {<<>>, eol}

\* The lines ls with every terminator replaced by eol.
RECURSIVE Rejoin(_, _)
Rejoin(ls, eol) ==
    IF ls = <<>> THEN <<>>
    ELSE ls[1].content \o (IF ls[1].eol = <<>> THEN <<>> ELSE eol)
         \o Rejoin(Tail(ls), eol)

\* What the claim compares: kind, tag, name and value, not the spans.
Shape(its) ==
    [k \in 1..Len(its) |->
        IF its[k].kind = "field"
        THEN [kind |-> "field", type |-> its[k].type,
              typename |-> its[k].typename, value |-> its[k].value]
        ELSE [kind |-> its[k].kind]]

\* b with convention from and its twin with convention to hold the same lines.
SameLines(b, from, to) ==
    LET ls == ScanLines(b, 0) IN
    /\ UsesOnly(ls, from)
    /\ LineContents(ScanLines(Rejoin(ls, to), 0)) = LineContents(ls)

\* C14: buffers with the same line contents, one ended by LF and one by CR LF,
\* are parsed into the same kinds, tags, names and values.
C14_Terminators ==
    \A c \in Calls : \A from, to \in Eols :
        (ParseFinished(c) /\ SameLines(tvb, from, to))
        => Shape(items[c]) =
              Shape(DissectItems(Rejoin(ScanLines(tvb, 0), to)))

\* A finished parse of two LF-ended fields, one with a value, whose CR LF
\* twin is another buffer with the same lines.
C14_Witness ==
    \E c \in Calls :
        /\ ParseFinished(c)
        /\ SameLines(tvb, <<LF>>, <<CR, LF>>)
        /\ Rejoin(ScanLines(tvb, 0), <<CR, LF>>) # tvb
        /\ Len(ScanLines(tvb, 0)) = 2
        /\ \A k \in 1..2 : ScanLines(tvb, 0)[k].eol = <<LF>>
        /\ Len(items[c]) = 2
        /\ Kinds(items[c]) = {"field"}
        /\ \E k \in 1..2 : items[c][k].value # <<>>

(***************************************************************************)
(* C15: trailing data exactly on early exit.  A parse adds at most one     *)
(* data item; it is added by the last step, is the last item, is not empty *)
(* and reaches the end of the buffer.  A finished parse has a data item    *)
(* exactly when its loop stopped at a line of fewer than 2 bytes; when     *)
(* every line met has 2 bytes or more the offset has reached the end of    *)
(* the buffer and there is no data item.                                   *)
(***************************************************************************)
C15_OneLastNonEmpty(c) ==
    \A k \in 1..Len(items[c]) :
        items[c][k].kind = "data" =>
            /\ k = Len(items[c])
            /\ pc[c] = "done"
            /\ items[c][k].length > 0
            /\ items[c][k].datalen = items[c][k].length
            /\ items[c][k].start = offset[c]
            /\ items[c][k].start + items[c][k].length = Len(tvb)

C15_IffShort(c) ==
    ParseFinished(c) =>
        /\ ("data" \in Kinds(items[c])) <=> ShortMet(c)
        /\ ShortMet(c) <=> ~AllLinesLong(tvb, 0)

C15_Consumed(c) ==
    (ParseFinished(c) /\ AllLinesLong(tvb, 0)) =>
        /\ offset[c] = Len(tvb)
        /\ "data" \notin Kinds(items[c])

\* C15: at most one data item, last and not empty, present exactly when the
\* loop stopped at a short line; otherwise the whole buffer is consumed.
C15_TrailingData ==
    \A c \in Calls :
        /\ C15_OneLastNonEmpty(c)
        /\ C15_IffShort(c)
        /\ C15_Consumed(c)

\* A finished parse that stopped at a last line of one byte after a field:
\* the data item is that byte.
C15_Witness ==
    \E c \in Calls :
        /\ ParseFinished(c)
        /\ ShortMet(c)
        /\ Len(items[c]) >= 2
        /\ items[c][1].kind = "field"
        /\ LastItem(c).kind = "data"
        /\ LastItem(c).datalen = 1


====
